---- MODULE Spec2Model ----
(***************************************************************************)
(* TurbuStat: the power-spectrum pipeline (PowerSpectrum on top of         *)
(* StatisticBase_PSpec2D), the distance metric PSpec_Distance and the      *)
(* spectral regridding utility spectral_regrid_cube.                       *)
(*                                                                         *)
(* Numbers.  Python floats are carried as exact rationals <<n, d>> with    *)
(* d > 0 in lowest terms; <<0, 0>> is NaN.  Every numeric attribute of an  *)
(* object is a record [k, v]: k is "undef" (the attribute does not exist), *)
(* "None", "scalar" or "array", and v the sequence of its rationals.       *)
(* Quantities that the code obtains through a square root (standard        *)
(* deviations, standard errors, the distance) are carried as their         *)
(* squares.  log10 is carried in units of log10(2) and truncated to an     *)
(* integer (a fixed-point logarithm), 10**b is its inverse 2**b.           *)
(***************************************************************************)
EXTENDS Integers, Sequences, FiniteSets, TLC

(* ------------------------------ bounds -------------------------------- *)
\* Number of positive radial frequencies of the 2D spectrum; the image has
\* 2 * NumRadii pixels along its largest dimension.
NumRadii == 8
\* Largest explicit min_fits_pts a caller passes (besides the default).
MaxMinFitsPts == 1

\* The most channels a cube has.
MaxChan == 5

\* Default of fit_pspec's min_fits_pts.
min_fits_pts_default == 10

NPix == 2 * NumRadii

(* ---------------------------- arithmetic ------------------------------ *)
Abs(a) == IF a < 0 THEN -a ELSE a

Max(a, b) == IF a < b THEN b ELSE a

Min(a, b) == IF a < b THEN a ELSE b

RECURSIVE GCD(_, _)
GCD(a, b) == IF b = 0 THEN a ELSE GCD(b, a % b)

NaN == <<0, 0>>

IsNaN(r) == r[2] = 0

\* The rational n/d in lowest terms with a positive denominator.
Rat(n, d) ==
    IF d = 0 THEN NaN
    ELSE LET g == GCD(Abs(n), Abs(d))
             s == IF d < 0 THEN -1 ELSE 1
         IN  <<s * (n \div g), s * (d \div g)>>

RInt(n) == <<n, 1>>

RAdd(a, b) == IF IsNaN(a) \/ IsNaN(b) THEN NaN
              ELSE Rat(a[1] * b[2] + b[1] * a[2], a[2] * b[2])

RSub(a, b) == IF IsNaN(a) \/ IsNaN(b) THEN NaN
              ELSE Rat(a[1] * b[2] - b[1] * a[2], a[2] * b[2])

RMul(a, b) == IF IsNaN(a) \/ IsNaN(b) THEN NaN
              ELSE Rat(a[1] * b[1], a[2] * b[2])

RDiv(a, b) == IF IsNaN(a) \/ IsNaN(b) THEN NaN
              ELSE Rat(a[1] * b[2], a[2] * b[1])

RAbs(a) == <<Abs(a[1]), a[2]>>

\* a < b, a > b on rationals; any comparison with NaN is false.
RLess(a, b) == ~IsNaN(a) /\ ~IsNaN(b) /\ a[1] * b[2] < b[1] * a[2]

RGreater(a, b) == RLess(b, a)

RLeq(a, b) == ~IsNaN(a) /\ ~IsNaN(b) /\ a[1] * b[2] <= b[1] * a[2]

RECURSIVE SumSeq(_)
SumSeq(s) == IF s = <<>> THEN 0 ELSE Head(s) + SumSeq(Tail(s))

RECURSIVE RSumSeq(_)
RSumSeq(s) == IF s = <<>> THEN RInt(0) ELSE RAdd(Head(s), RSumSeq(Tail(s)))

RECURSIVE SelectIdx(_, _)
\* The subsequence of s at the positions where mask is TRUE (numpy boolean
\* indexing).
SelectIdx(s, mask) ==
    IF s = <<>> THEN <<>>
    ELSE (IF Head(mask) THEN <<Head(s)>> ELSE <<>>)
         \o SelectIdx(Tail(s), Tail(mask))

RECURSIVE Freeze(_, _)
\* The first n entries of f, as a tuple.
Freeze(f, n) == IF n = 0 THEN <<>> ELSE Append(Freeze(f, n - 1), f[n])

RECURSIVE ILog2(_)
\* floor(log2(v)) for an integer v >= 1.
ILog2(v) == IF v < 2 THEN 0 ELSE 1 + ILog2(v \div 2)

RECURSIVE CLog2(_, _)
\* The least j >= 0 with n * 2^j >= d.
CLog2(n, d) == IF n >= d THEN 0 ELSE 1 + CLog2(2 * n, d)

\* np.log10 of a positive rational, in units of log10(2), truncated down.
Log10(r) == IF r[1] >= r[2] THEN ILog2(r[1] \div r[2]) ELSE -CLog2(r[1], r[2])

RECURSIVE Pow2(_)
Pow2(k) == IF k <= 0 THEN 1 ELSE 2 * Pow2(k - 1)

\* 10**b for a logarithm b in units of log10(2).
Pow10(b) == IF b >= 0 THEN RInt(Pow2(b)) ELSE Rat(1, Pow2(-b))

(* ------------------------------ values -------------------------------- *)
Undef == [k |-> "undef", v |-> <<>>]

None == [k |-> "None", v |-> <<>>]

Scalar(r) == [k |-> "scalar", v |-> <<r>>]

Array(s) == [k |-> "array", v |-> s]

True == [k |-> "True", v |-> <<>>]

False == [k |-> "False", v |-> <<>>]

Bool(b) == IF b THEN True ELSE False

IsUndef(a) == a.k = "undef"

IsNone(a) == a.k = "None"

(* --------------------------- PowerSpectrum ---------------------------- *)
\* The images a pipeline is built on: compact sources on an empty field,
\* NaN-free, NPix pixels along the largest dimension.
Images ==
    { Freeze([j \in 1..NPix |-> IF j <= 3 THEN 1 ELSE 0], NPix),
      Freeze([j \in 1..NPix |-> IF j = 1 THEN 3 ELSE IF j \in {2, 6} THEN 1 ELSE 0],
             NPix) }

\* Beam.as_kernel followed by the transform: the beam's response at each
\* radial frequency (a low-pass response).
BeamFFT ==
    Freeze([r \in 1..NumRadii |-> IF 2 * r <= NumRadii THEN RInt(2) ELSE RInt(1)],
           NumRadii)

UndefFit == [model |-> "undef", x |-> <<>>, y |-> <<>>, params |-> <<>>,
             bse |-> <<>>]

\* PowerSpectrum.__init__ with weights=None: weighted_data = data * ones,
\* _ps1D_stddev = None and _beam only when a beam is given.  Every other
\* attribute does not exist yet.
PowerSpectrum(img, beam) ==
    [ weighted_data |-> img,
      _beam         |-> IF beam THEN Array(BeamFFT) ELSE Undef,
      _ps2D         |-> Undef,
      _freqs        |-> Undef,
      _ps1D         |-> Undef,
      _ps1D_stddev  |-> None,
      _stddev_flag  |-> Undef,
      low_cut       |-> Undef,
      high_cut      |-> Undef,
      _brk          |-> Undef,
      _brk_err      |-> Undef,
      _slope        |-> Undef,
      _slope_err    |-> Undef,
      fit           |-> UndefFit ]

hasattr(obj, name) == ~IsUndef(obj[name])

\* What a call leaves behind: the object, the exception raised ("" when the
\* call returned) and the warnings emitted.
Outcome(obj, raised, warnings) ==
    [obj |-> obj, raised |-> raised, warnings |-> warnings]

\* F applied to the value of v, v being evaluated once (a local variable).
Bind(v, F(_)) == CHOOSE r \in {F(x) : x \in {v}} : TRUE

\* Apodization widths passed as alpha.
AlphaSet == {1}

\* BaseStatisticMixIn.apodizing_kernel: a taper that is alpha pixels wide at
\* each edge of the image (in units of 1 / (alpha + 1)).
apodizing_kernel(alpha) ==
    [j \in 1..NPix |-> Min(Min(j - 1, NPix - j), alpha) + 1]

\* self.weighted_data * apod_kernel
Apodized(data, alpha) ==
    LET kernel == apodizing_kernel(alpha)
    IN  Freeze([j \in 1..NPix |-> data[j] * kernel[j]], NPix)

RECURSIVE Correlate(_, _, _, _)
\* Sum over pixels j..NPix of arr[j] times the square wave of frequency r,
\* in phase (quad = 0) or a quarter period ahead (quad = 1).
Correlate(arr, r, quad, j) ==
    IF j > NPix THEN 0
    ELSE LET ph == IF quad = 1 THEN (4 * r * (j - 1) + NPix) \div (2 * NPix)
                   ELSE (2 * r * (j - 1)) \div NPix
             sg == IF ph % 2 = 0 THEN 1 ELSE -1
         IN  sg * arr[j] + Correlate(arr, r, quad, j + 1)

\* The magnitude of the transform of arr at the radial frequencies
\* 1..NumRadii, carried as its square.
Transform(arr) ==
    [r \in 1..NumRadii |->
        LET s == Correlate(arr, r, 0, 1)
            c == Correlate(arr, r, 1, 1)
        IN  RInt(s * s + c * c)]

\* The arrays a pipeline transforms, and their transforms (worked out once).
TransformInputs == Images \cup {Apodized(img, a) : img \in Images, a \in AlphaSet}

TransformTable == {<<arr, Freeze(Transform(arr), NumRadii)>> : arr \in TransformInputs}

\* fftshift(rfft_to_fft(arr))
rfft_to_fft(arr) == (CHOOSE p \in TransformTable : p[1] = arr)[2]

\* np.power(fft / beam_fft, 2.) on magnitudes: the squared magnitude over
\* the squared beam response.
BeamCorrected(fft, beam_fft) ==
    Freeze([r \in 1..NumRadii |-> RDiv(fft[r], RMul(beam_fft[r], beam_fft[r]))],
           NumRadii)

\* compute_pspec, were beam_correct=True to insist on a beam.
compute_pspec_requires_beam(obj, beam_correct, apodize, alpha) ==
    LET fft == IF apodize THEN rfft_to_fft(Apodized(obj.weighted_data, alpha))
               ELSE rfft_to_fft(obj.weighted_data)
    IN  IF beam_correct
        THEN IF hasattr(obj, "_beam")
             THEN Outcome([obj EXCEPT !._ps2D = Array(BeamCorrected(fft, obj._beam.v))],
                          "", <<>>)
             ELSE Outcome(obj, "AttributeError", <<>>)
        ELSE Outcome([obj EXCEPT !._ps2D = Array(fft)], "", <<>>)

\* PowerSpectrum.compute_pspec
compute_pspec(obj, beam_correct, apodize, alpha) ==
    LET fft == IF apodize THEN rfft_to_fft(Apodized(obj.weighted_data, alpha))
               ELSE rfft_to_fft(obj.weighted_data)
    IN  IF beam_correct /\ hasattr(obj, "_beam")
        THEN Outcome([obj EXCEPT !._ps2D = Array(BeamCorrected(fft, obj._beam.v))],
                     "", <<>>)
        ELSE Outcome([obj EXCEPT !._ps2D = Array(fft)], "", <<>>)

(* ------------------------- the binning engine ------------------------- *)
\* The default of psds.pspec's own logspacing parameter.
pspec_default_logspacing == TRUE

\* The bin of the cell at radius r: octave bins when logarithmic, bins two
\* cells wide when linear.
BinOf(r, logspacing) == IF logspacing THEN ILog2(r) + 1 ELSE (r + 1) \div 2

\* The radii binned: all positive radii, up to max_bin (a frequency, in
\* 1/pix) when it is given.  The cell at radius r has frequency r / NPix.
BinnedRadii(max_bin) ==
    {r \in 1..NumRadii : IsNone(max_bin) \/ RLeq(Rat(r, NPix), max_bin.v[1])}

BinMembers(b, logspacing, max_bin) ==
    {r \in BinnedRadii(max_bin) : BinOf(r, logspacing) = b}

RECURSIVE SetToSeq(_, _)
\* The members of S that are >= from, in increasing order.
SetToSeq(S, from) ==
    IF \A e \in S : e < from THEN <<>>
    ELSE IF from \in S THEN <<from>> \o SetToSeq(S, from + 1)
    ELSE SetToSeq(S, from + 1)

\* Non-empty bins, in increasing order: empty bins are dropped.
BinsOf(logspacing, max_bin) ==
    SetToSeq({b \in 1..(NumRadii + 1) : BinMembers(b, logspacing, max_bin) # {}}, 1)

BinCentre(M) ==
    LET lo == CHOOSE r \in M : \A q \in M : r <= q
        hi == CHOOSE r \in M : \A q \in M : r >= q
    IN  Rat(lo + hi, 2 * NPix)

BinMean(ps2D, M) ==
    LET rs == SetToSeq(M, 1)
    IN  RDiv(RSumSeq([i \in 1..Len(rs) |-> ps2D.v[rs[i]]]), RInt(Len(rs)))

\* The variance of the bin's members (the standard deviation, squared).
BinStddev(ps2D, M) ==
    LET rs == SetToSeq(M, 1)
        m  == BinMean(ps2D, M)
        sq == RDiv(RSumSeq([i \in 1..Len(rs) |-> RMul(ps2D.v[rs[i]], ps2D.v[rs[i]])]),
                   RInt(Len(rs)))
    IN  RSub(sq, RMul(m, m))

\* The radial profile <<freqs, ps1D>> or, with return_stddev,
\* <<freqs, ps1D, ps1D_stddev>>.
RadialProfile(ps2D, return_stddev, logspacing, max_bin) ==
    LET bins == BinsOf(logspacing, max_bin)
        M(i) == BinMembers(bins[i], logspacing, max_bin)
        fr   == [i \in 1..Len(bins) |-> BinCentre(M(i))]
        pw   == [i \in 1..Len(bins) |-> BinMean(ps2D, M(i))]
        sd   == [i \in 1..Len(bins) |-> BinStddev(ps2D, M(i))]
    IN  IF return_stddev
        THEN <<Freeze(fr, Len(bins)), Freeze(pw, Len(bins)), Freeze(sd, Len(bins))>>
        ELSE <<Freeze(fr, Len(bins)), Freeze(pw, Len(bins))>>

\* max_bin as passed to compute_radial_pspec.
MaxBinSet == {None, Scalar(Rat(3, 8))}

\* The 2D spectra a pipeline can hold, and their profiles (worked out once).
PS2DValues ==
    {Array(p[2]) : p \in TransformTable}
    \cup {Array(BeamCorrected(p[2], BeamFFT)) : p \in TransformTable}

ProfileTable ==
    { <<a, RadialProfile(a[1], a[2], a[3], a[4])>> :
        a \in PS2DValues \X BOOLEAN \X BOOLEAN \X MaxBinSet }

\* psds.pspec
pspec(ps2D, return_stddev, logspacing, max_bin) ==
    (CHOOSE p \in ProfileTable :
        p[1] = <<ps2D, return_stddev, logspacing, max_bin>>)[2]

\* StatisticBase_PSpec2D.compute_radial_pspec.  self.ps2D raises when
\* compute_pspec has not run.  Without return_stddev the caller's logspacing
\* is not passed on and _ps1D_stddev is left as it was.
compute_radial_pspec(obj, return_stddev, logspacing, max_bin) ==
    IF ~hasattr(obj, "_ps2D") THEN Outcome(obj, "AttributeError", <<>>)
    ELSE IF return_stddev
    THEN LET r == pspec(obj._ps2D, return_stddev, logspacing, max_bin)
         IN  Outcome([obj EXCEPT !._freqs = Array(r[1]),
                                 !._ps1D = Array(r[2]),
                                 !._ps1D_stddev = Array(r[3]),
                                 !._stddev_flag = True],
                     "", <<>>)
    ELSE LET r == pspec(obj._ps2D, return_stddev, pspec_default_logspacing, max_bin)
         IN  Outcome([obj EXCEPT !._freqs = Array(r[1]),
                                 !._ps1D = Array(r[2]),
                                 !._stddev_flag = False],
                     "", <<>>)

(* ----------------------------- regression ----------------------------- *)
\* fitting_utils.clip_func: the mask of the entries within the fit limits.
clip_func(arr, low, high) ==
    Freeze([i \in 1..Len(arr) |-> RGreater(arr[i], low) /\ RLeq(arr[i], high)],
           Len(arr))

\* BaseStatisticMixIn._to_pixel_freq on a quantity already given in 1/pix.
_to_pixel_freq(q) == q

SumProd(x, y) == SumSeq([i \in 1..Len(x) |-> x[i] * y[i]])

\* sm.OLS(y, sm.add_constant(x)).fit(): params = <<intercept, slope>>,
\* bse = their squared standard errors, (RSS / (n - 2)) times the diagonal
\* of the inverse of X'X.  The slope is NaN when x has fewer than two
\* distinct values, the errors are NaN without residual freedom.
OLS(x, y) ==
    LET n  == Len(x)
        sx == SumSeq(x)
        sy == SumSeq(y)
        xx == SumProd(x, x)
        D  == n * xx - sx * sx
        A  == n * SumProd(x, y) - sx * sy
        B  == n * SumProd(y, y) - sy * sy
    IN  [ model  |-> "OLS", x |-> x, y |-> y,
          params |-> << Rat(sy * D - A * sx, n * D), Rat(A, D) >>,
          bse    |-> << Rat((B * D - A * A) * xx, n * (n - 2) * D * D),
                        Rat(B * D - A * A, (n - 2) * D * D) >> ]

OLSSlope(x, y) == OLS(x, y).params[2]

OLSSlopeErr(x, y) == OLS(x, y).bse[2]

\* sum(x < b) on logarithms.
CountBelow(x, b) == Cardinality({i \in 1..Len(x) : x[i] < b})

BelowMask(x, b) == Freeze([i \in 1..Len(x) |-> x[i] < b], Len(x))

AboveMask(x, b) == Freeze([i \in 1..Len(x) |-> ~(x[i] < b)], Len(x))

\* What the segmented fit can come out as: whether the iteration ended in a
\* 5-parameter model, and where it put the break (a free parameter of the
\* fit, in the logarithmic units of x).
LmSegOutcomes ==
    {[converged |-> FALSE, brk |-> 0]} \cup
    [converged : {TRUE}, brk : (1 - ILog2(NPix))..(-1)]

\* lm_seg.Lm_Seg(x, y, brk).fit_model(): a break guess outside the data
\* raises; otherwise two joined segments around the fitted break, or, when
\* the iteration fails, the plain linear model (2 parameters).
Lm_Seg(x, y, brk, lm) ==
    LET below == BelowMask(x, lm.brk)
        above == AboveMask(x, lm.brk)
        lo == OLS(SelectIdx(x, below), SelectIdx(y, below))
        hi == OLS(SelectIdx(x, above), SelectIdx(y, above))
        slopes == << lo.params[2], hi.params[2] >>
        slope_errs == << lo.bse[2], hi.bse[2] >>
    IN  [ raised      |-> \/ x = <<>>
                          \/ \A i \in 1..Len(x) : brk < x[i]
                          \/ \A i \in 1..Len(x) : brk > x[i],
          params_size |-> IF lm.converged THEN 5 ELSE 2,
          brk         |-> lm.brk,
          brk_err     |-> RInt(1),
          slopes      |-> slopes,
          slope_errs  |-> slope_errs,
          fit         |-> [ model  |-> "Lm_Seg", x |-> x, y |-> y,
                            params |-> slopes \o << RInt(lm.brk) >>,
                            bse    |-> slope_errs \o << RInt(1) >> ] ]

(* ------------------------------ fit_pspec ----------------------------- *)
\* Lines 149-152: the fitted break is kept when the fit has 5 parameters and
\* the points below the break are not fewer than min_fits_pts.
break_kept(x, brk_fit, min_fits_pts) ==
    /\ brk_fit.params_size = 5
    /\ ~(CountBelow(x, brk_fit.brk) < min_fits_pts)

\* ignore_break, were self._brk left as it is.
ignore_break_keeps_brk(obj) == obj

\* Lines 153-156 and 172-175: the break is ignored, with a warning.
ignore_break(obj) == [obj EXCEPT !._brk = None]

ignore_warning(brk_fit) ==
    IF brk_fit.params_size = 5
    THEN <<"Not enough points to fit to. Ignoring break.">>
    ELSE <<"Model with break failed, reverting to model without break.">>

\* Lines 158-169: the break is kept.  The break leaves logarithmic space as
\* 10**brk, its error as ln(10) * brk * brk_err, which in units of log10(2)
\* is ln(2) * brk * brk_err (ln(2) to three decimals).
keep_break(obj, brk_fit) ==
    [obj EXCEPT !._brk       = Scalar(Pow10(brk_fit.brk)),
                !._brk_err   = Scalar(RMul(Rat(693, 1000),
                                           RMul(Pow10(brk_fit.brk), brk_fit.brk_err))),
                !._slope     = Array(brk_fit.slopes),
                !._slope_err = Array(brk_fit.slope_errs),
                !.fit        = brk_fit.fit]

\* Lines 176-178: no break was asked for.
no_break(obj) == [obj EXCEPT !._brk = None, !._brk_err = None]

\* Lines 180-188: the single-segment fit, made when self.brk is None.
single_fit(obj, x, y) ==
    IF IsNone(obj._brk)
    THEN LET fit == OLS(x, y)
         IN  [obj EXCEPT !.fit        = fit,
                         !._slope     = Scalar(fit.params[2]),
                         !._slope_err = Scalar(fit.bse[2])]
    ELSE obj

\* Lines 116-127: the fit limits.  The default low cut is one pixel of the
\* 2D spectrum, 1 / (0.5 * max(shape)); the default high cut is the largest
\* frequency plus one.
fit_limits(obj, low_cut, high_cut) ==
    [obj EXCEPT !.low_cut  = IF IsNone(low_cut) THEN Scalar(Rat(2, NPix))
                             ELSE _to_pixel_freq(low_cut),
                !.high_cut = IF IsNone(high_cut)
                             THEN Scalar(RAdd(obj._freqs.v[Len(obj._freqs.v)], RInt(1)))
                             ELSE _to_pixel_freq(high_cut)]

\* Lines 129-132: the logarithms of the profile within the fit limits.
FitMask(obj) == clip_func(obj._freqs.v, obj.low_cut.v[1], obj.high_cut.v[1])

FitX(obj) ==
    LET f == SelectIdx(obj._freqs.v, FitMask(obj))
    IN  Freeze([i \in 1..Len(f) |-> Log10(f[i])], Len(f))

FitY(obj) ==
    LET p == SelectIdx(obj._ps1D.v, FitMask(obj))
    IN  Freeze([i \in 1..Len(p) |-> Log10(p[i])], Len(p))

\* Lines 136-143: the break guess in logarithmic units.
LogBreak(brk, log_break) ==
    IF log_break THEN brk.v[1][1] ELSE Log10(_to_pixel_freq(brk).v[1])

\* StatisticBase_PSpec2D.fit_pspec.  lm is what the segmented fit comes out
\* as, should one be made.  Reading ps2D, freqs or ps1D before they exist
\* raises, as does max() of an empty profile.
fit_pspec(obj, brk, log_break, low_cut, high_cut, min_fits_pts, lm) ==
    IF IsNone(low_cut) /\ ~hasattr(obj, "_ps2D")
    THEN Outcome(obj, "AttributeError", <<>>)
    ELSE IF ~hasattr(obj, "_freqs")
    THEN Outcome([obj EXCEPT !.low_cut  = IF IsNone(low_cut) THEN Scalar(Rat(2, NPix))
                                          ELSE _to_pixel_freq(low_cut),
                             !.high_cut = IF IsNone(high_cut) THEN @
                                          ELSE _to_pixel_freq(high_cut)],
                 "AttributeError", <<>>)
    ELSE IF IsNone(high_cut) /\ obj._freqs.v = <<>>
    THEN Outcome([obj EXCEPT !.low_cut  = IF IsNone(low_cut) THEN Scalar(Rat(2, NPix))
                                          ELSE _to_pixel_freq(low_cut)],
                 "ValueError", <<>>)
    ELSE Bind(fit_limits(obj, low_cut, high_cut), LAMBDA o :
         Bind(<<FitX(o), FitY(o)>>, LAMBDA xy :
             IF IsNone(brk)
             THEN Outcome(single_fit(no_break(o), xy[1], xy[2]), "", <<>>)
             ELSE Bind(Lm_Seg(xy[1], xy[2], LogBreak(brk, log_break), lm),
                       LAMBDA brk_fit :
                  IF brk_fit.raised
                  THEN Outcome(o, "ValueError", <<>>)
                  ELSE IF break_kept(xy[1], brk_fit, min_fits_pts)
                  THEN Outcome(single_fit(keep_break(o, brk_fit),
                                          SelectIdx(xy[1], BelowMask(xy[1], brk_fit.brk)),
                                          SelectIdx(xy[2], BelowMask(xy[1], brk_fit.brk))),
                               "", <<>>)
                  ELSE Outcome(single_fit(ignore_break(o), xy[1], xy[2]), "",
                               ignore_warning(brk_fit)))))

(* ------------------------------- state -------------------------------- *)
VARIABLES
    self,   \* the PowerSpectrum instance
    ret,    \* the last call made on it: its arguments and how it ended
    call,   \* the call of spectral_regrid_cube, or of run while it executes
    dist    \* the PSpec_Distance instance

vars == <<self, ret, call, dist>>

\* Fit limits <<low_cut, high_cut>> as passed to fit_pspec: the defaults, and
\* limits that let the lowest frequency in and keep the highest out.
FitLimits == { <<None, None>>,
               <<Scalar(Rat(1, 2 * NPix)), Scalar(Rat(3, 8))>> }

\* Break guesses <<brk, log_break>>: a frequency, a logarithm, and a
\* frequency above every frequency of the profile.
BreakGuesses == { <<Scalar(Rat(1, 4)), FALSE>>,
                  <<Scalar(RInt(-3)), TRUE>>,
                  <<Scalar(RInt(2)), FALSE>> }

MinFitsPtsSet == (0..MaxMinFitsPts) \cup {min_fits_pts_default}

NoLm == [converged |-> FALSE, brk |-> 0]

NoCall ==
    [ op |-> "", raised |-> "", warnings |-> <<>>,
      beam_correct |-> FALSE, apodize |-> FALSE, alpha |-> 0,
      return_stddev |-> FALSE, logspacing |-> FALSE, max_bin |-> None,
      guess |-> FALSE, min_fits_pts |-> 0, lm |-> NoLm ]

Returned(op, out) ==
    [NoCall EXCEPT !.op = op, !.raised = out.raised, !.warnings = out.warnings]

NoRegrid == [op |-> ""]

NoDist ==
    [ op |-> "", raised |-> "", pspec1 |-> Undef, pspec2 |-> Undef,
      results |-> Undef, distance |-> Undef ]

(* -------------------- the pipeline, stage by stage -------------------- *)
Init ==
    /\ self \in {PowerSpectrum(img, beam) : img \in Images, beam \in BOOLEAN}
    /\ ret = NoCall
    /\ call = NoRegrid
    /\ dist = NoDist

ComputePspec ==
    \E beam_correct \in BOOLEAN, apodize \in BOOLEAN, alpha \in AlphaSet :
        LET out == compute_pspec(self, beam_correct, apodize, alpha)
        IN  /\ self' = out.obj
            /\ ret' = [Returned("compute_pspec", out) EXCEPT
                          !.beam_correct = beam_correct,
                          !.apodize = apodize, !.alpha = alpha]
            /\ UNCHANGED <<call, dist>>

ComputeRadialPspec ==
    \E return_stddev \in BOOLEAN, logspacing \in BOOLEAN, max_bin \in MaxBinSet :
        LET out == compute_radial_pspec(self, return_stddev, logspacing, max_bin)
        IN  /\ self' = out.obj
            /\ ret' = [Returned("compute_radial_pspec", out) EXCEPT
                          !.return_stddev = return_stddev,
                          !.logspacing = logspacing, !.max_bin = max_bin]
            /\ UNCHANGED <<call, dist>>

\* fit_pspec() with every argument left at its default.
FitPspecDefault ==
    LET out == fit_pspec(self, None, FALSE, None, None, min_fits_pts_default, NoLm)
    IN  /\ self' = out.obj
        /\ ret' = [Returned("fit_pspec", out) EXCEPT
                      !.min_fits_pts = min_fits_pts_default]
        /\ UNCHANGED <<call, dist>>

Next == ComputePspec \/ ComputeRadialPspec \/ FitPspecDefault

Spec == Init /\ [][Next]_vars

(* ------------------------ spectral_regrid_cube ------------------------ *)
\* Channel widths as the caller passes them: a Python int, a float, or an
\* astropy Quantity (value and unit).
PyInt(n) == [type |-> "int", value |-> RInt(n), unit |-> ""]

PyFloat(r) == [type |-> "float", value |-> r, unit |-> ""]

Quantity(value, unit) == [type |-> "Quantity", value |-> value, unit |-> unit]

\* The spectral unit of the cubes, and what one of each unit is in it
\* (Quantity.to): a unit with no entry cannot be converted.
SpectralUnit == "km/s"

UnitScale == { <<"km/s", RInt(1)>>, <<"m/s", Rat(1, 1000)>> }

Convertible(unit) == \E p \in UnitScale : p[1] = unit

to(q, unit) == RMul(q.value, (CHOOSE p \in UnitScale : p[1] = q.unit)[2])

\* A SpectralCube: its spectral axis (in SpectralUnit), one value per
\* channel, and the library operations it went through.  NotACube is any
\* object that is no BaseSpectralCube.
SpectralCube(axis, data) ==
    [is_cube |-> TRUE, spectral_axis |-> axis, data |-> data, ops |-> <<>>]

NotACube == [is_cube |-> FALSE, spectral_axis |-> <<>>, data |-> <<>>, ops |-> <<>>]

CubeOp(name, arg) == [name |-> name, arg |-> arg]

\* numpy.nanmean and numpy.nanmax of a sequence: NaN entries are left out,
\* and the result is NaN when nothing is left.
Valid(s) == SelectIdx(s, Freeze([i \in 1..Len(s) |-> ~IsNaN(s[i])], Len(s)))

nanmean(s) ==
    IF Valid(s) = <<>> THEN NaN
    ELSE RDiv(RSumSeq(Valid(s)), RInt(Len(Valid(s))))

RECURSIVE RMaxSeq(_)
RMaxSeq(s) ==
    IF Len(s) = 1 THEN Head(s)
    ELSE IF RLess(Head(s), RMaxSeq(Tail(s))) THEN RMaxSeq(Tail(s)) ELSE Head(s)

nanmax(s) == IF Valid(s) = <<>> THEN NaN ELSE RMaxSeq(Valid(s))

Estimator(fn, s) == IF fn = "nanmax" THEN nanmax(s) ELSE nanmean(s)

\* The estimator downsample_axis uses when none is passed to it.
downsample_axis_estimator == "nanmean"

\* SpectralCube.downsample_axis(factor, axis=0, estimator, truncate=False):
\* the channels are taken factor at a time, the last group being what is
\* left (the library pads it with NaN); a factor below 1 fails inside the
\* library (0: modulo by zero, negative: nothing to concatenate).
downsample_axis(cube, factor, estimator) ==
    IF factor < 1
    THEN [raised |-> IF factor = 0 THEN "ZeroDivisionError" ELSE "ValueError",
          cube |-> NotACube]
    ELSE LET N == Len(cube.data)
             M == (N + factor - 1) \div factor
             lo(j) == (j - 1) * factor + 1
             hi(j) == Min(j * factor, N)
         IN  [raised |-> "",
              cube |-> [cube EXCEPT
                  !.spectral_axis =
                      Freeze([j \in 1..M |->
                                 RAdd(cube.spectral_axis[lo(j)],
                                      RMul(Rat(factor - 1, 2),
                                           RSub(cube.spectral_axis[2],
                                                cube.spectral_axis[1])))], M),
                  !.data = Freeze([j \in 1..M |->
                                     Estimator(estimator,
                                               SubSeq(cube.data, lo(j), hi(j)))], M),
                  !.ops = Append(@, CubeOp("downsample_axis", RInt(factor)))]]

\* SpectralCube.spectral_smooth(kernel): the cube convolved along the
\* spectral axis, kept as the data with the kernel applied to them.
spectral_smooth(cube, kernel) ==
    [cube EXCEPT !.ops = Append(@, CubeOp("spectral_smooth", kernel))]

\* SpectralCube.spectral_interpolate(spectral_grid): the cube on the grid.
spectral_interpolate(cube, spectral_grid) ==
    [cube EXCEPT !.spectral_axis = spectral_grid,
                 !.ops = Append(@, CubeOp("spectral_interpolate",
                                          RInt(Len(spectral_grid))))]

\* How a call of spectral_regrid_cube ends: the exception and the argument
\* it blames, whether a warning was issued, the cube operations invoked in
\* order, the cube returned and whether it is the input object itself.
Raise(exc, blamed, log) ==
    [raised |-> exc, blamed |-> blamed, warned |-> FALSE, log |-> log,
     cube |-> NotACube, is_input |-> FALSE]

Return(cube, warned, log, is_input) ==
    [raised |-> "", blamed |-> "", warned |-> warned, log |-> log,
     cube |-> cube, is_input |-> is_input]

\* Lines 71-77: method='downsample'.
\* The downsample branch, were the width passed on without the int test.
downsample_branch_unchecked(cube, channel_width) ==
    LET r == downsample_axis(cube, channel_width.value[1], downsample_axis_estimator)
    IN  IF r.raised # "" THEN Raise(r.raised, "", <<"downsample_axis">>)
        ELSE Return(r.cube, FALSE, <<"downsample_axis">>, FALSE)

downsample_branch(cube, channel_width) ==
    IF channel_width.type # "int"
    THEN Raise("TypeError", "channel_width", <<>>)
    ELSE LET r == downsample_axis(cube, channel_width.value[1],
                                  downsample_axis_estimator)
         IN  IF r.raised # "" THEN Raise(r.raised, "", <<"downsample_axis">>)
             ELSE Return(r.cube, FALSE, <<"downsample_axis">>, FALSE)

\* Lines 89-91: np.diff(cube.spectral_axis[:2])[0].
current_resolution(cube) == RSub(cube.spectral_axis[2], cube.spectral_axis[1])

\* Lines 93-96; defined for pixel units and convertible units.
target_resolution(cube, channel_width) ==
    IF channel_width.unit = "pix"
    THEN RMul(channel_width.value, current_resolution(cube))
    ELSE to(channel_width, SpectralUnit)

\* diff_factor, were np.abs left out.
diff_factor_signed(cube, channel_width) ==
    RDiv(target_resolution(cube, channel_width), current_resolution(cube))

\* Line 98.
diff_factor(cube, channel_width) ==
    RAbs(RDiv(target_resolution(cube, channel_width), current_resolution(cube)))

\* Lines 112-115: the square of the kernel width, in units of 1/(8 ln 2)
\* channels squared (fwhm_factor squared is 8 ln 2).
gaussian_width(cube, channel_width) ==
    LET t == target_resolution(cube, channel_width)
        c == current_resolution(cube)
    IN  RDiv(RSub(RMul(t, t), RMul(c, c)), RMul(RAbs(c), RAbs(c)))

\* Line 119: int(np.floor_divide(cube.shape[0], diff_factor)).
num_chan(cube, channel_width) ==
    LET f == diff_factor(cube, channel_width)
    IN  (Len(cube.data) * f[2]) \div f[1]

RECURSIVE RMinSeq(_)
RMinSeq(s) ==
    IF Len(s) = 1 THEN Head(s)
    ELSE IF RLess(RMinSeq(Tail(s)), Head(s)) THEN RMinSeq(Tail(s)) ELSE Head(s)

Reversed(s) == Freeze([i \in 1..Len(s) |-> s[Len(s) + 1 - i]], Len(s))

\* np.linspace(start, stop, num): num evenly spaced samples, the start
\* alone when num is 1.
linspace(start, stop, num) ==
    Freeze([i \in 1..num |->
               IF num = 1 THEN start
               ELSE RAdd(start, RMul(Rat(i - 1, num - 1), RSub(stop, start)))],
           num)

\* new_specaxis, were the axis never reversed.
new_specaxis_unreversed(cube, channel_width) ==
    linspace(RMinSeq(cube.spectral_axis), RMaxSeq(cube.spectral_axis),
             num_chan(cube, channel_width))

\* Lines 120-126: the new axis from the least to the largest value of the old
\* one, reversed when the old one descends.
new_specaxis(cube, channel_width) ==
    LET axis == linspace(RMinSeq(cube.spectral_axis), RMaxSeq(cube.spectral_axis),
                         num_chan(cube, channel_width))
    IN  IF RLess(current_resolution(cube), RInt(0)) THEN Reversed(axis) ELSE axis

\* Lines 79-132: method='regrid'.
regrid_branch(cube, channel_width) ==
    IF channel_width.type # "Quantity"
    THEN Raise("TypeError", "channel_width", <<>>)
    ELSE IF channel_width.unit # "pix" /\ ~Convertible(channel_width.unit)
    THEN Raise("UnitConversionError", "channel_width", <<>>)
    ELSE IF diff_factor(cube, channel_width) = RInt(1)
    THEN Return(cube, TRUE, <<>>, TRUE)
    ELSE IF RLess(diff_factor(cube, channel_width), RInt(1))
    THEN Raise("ValueError", "channel_width", <<>>)
    ELSE LET new_cube == spectral_smooth(cube, gaussian_width(cube, channel_width))
         IN  Return(spectral_interpolate(new_cube, new_specaxis(cube, channel_width)),
                    FALSE, <<"spectral_smooth", "spectral_interpolate">>, FALSE)

\* spectral_regrid_cube(cube, channel_width, method, downsamp_function).
spectral_regrid_cube(cube, channel_width, method, downsamp_function) ==
    IF ~cube.is_cube
    THEN Raise("TypeError", "cube", <<>>)
    ELSE IF method \notin {"regrid", "downsample"}
    THEN Raise("ValueError", "method", <<>>)
    ELSE IF method = "downsample"
    THEN downsample_branch(cube, channel_width)
    ELSE regrid_branch(cube, channel_width)

(* --------------------------- fitting, alone --------------------------- *)
\* Pipelines that have been constructed, transformed and binned.
BinnedPipelines ==
    { compute_radial_pspec(
          compute_pspec(PowerSpectrum(img, FALSE), FALSE, FALSE, 1).obj,
          TRUE, logspacing, None).obj :
        img \in Images, logspacing \in BOOLEAN }

InitFit ==
    /\ self \in BinnedPipelines
    /\ ret = NoCall
    /\ call = NoRegrid
    /\ dist = NoDist

\* fit_pspec(low_cut=..., high_cut=...) without a break guess.
FitPspec ==
    \E cuts \in FitLimits :
        LET out == fit_pspec(self, None, FALSE, cuts[1], cuts[2],
                             min_fits_pts_default, NoLm)
        IN  /\ self' = out.obj
            /\ ret' = [Returned("fit_pspec", out) EXCEPT
                          !.min_fits_pts = min_fits_pts_default]
            /\ UNCHANGED <<call, dist>>

\* fit_pspec(brk=..., ...) with a break guess; lm is what the segmented fit
\* comes out as (there is none when Lm_Seg raises).
FitPspecBreak ==
    \E cuts \in FitLimits, g \in BreakGuesses,
       min_fits_pts \in MinFitsPtsSet, lm \in LmSegOutcomes :
        LET out == fit_pspec(self, g[1], g[2], cuts[1], cuts[2], min_fits_pts, lm)
        IN  /\ self' = out.obj
            /\ ret' = [Returned("fit_pspec", out) EXCEPT
                          !.guess = TRUE,
                          !.min_fits_pts = min_fits_pts,
                          !.lm = IF out.raised = "" THEN lm ELSE NoLm]
            /\ UNCHANGED <<call, dist>>

NextFit == FitPspec \/ FitPspecBreak

SpecFit == InitFit /\ [][NextFit]_vars

(* --------------------- spectral_regrid_cube, alone -------------------- *)
\* Cubes of 2..MaxChan channels on a uniform axis starting at 10 km/s, with
\* channel values 1, 4, 9, ... and, in half of them, a NaN second channel.
CubeSteps == {-1, 1, 2}

CubeAxis(N, step) == Freeze([i \in 1..N |-> RInt(10 + (i - 1) * step)], N)

CubeData(N, gap) ==
    Freeze([i \in 1..N |-> IF gap /\ i = 2 THEN NaN ELSE RInt(i * i)], N)

Cubes ==
    { SpectralCube(CubeAxis(N, step), CubeData(N, gap)) :
        N \in 2..MaxChan, step \in CubeSteps, gap \in BOOLEAN }
    \cup {NotACube}

ChannelWidths ==
    { PyInt(n) : n \in -1..3 } \cup { PyFloat(RInt(2)) }
    \cup { Quantity(r, "pix") : r \in {Rat(1, 2), RInt(1), Rat(3, 2), RInt(2), RInt(-2)} }
    \cup { Quantity(RInt(n), "km/s") : n \in {1, 2, 4} }
    \cup { Quantity(RInt(2000), "m/s"), Quantity(RInt(2), "K") }

Methods == {"regrid", "downsample", "upsample"}

DownsampFunctions == {"nanmean", "nanmax"}

NoOutcome == Raise("", "", <<>>)

\* The arguments of one call, drawn before it is made.
InitRegrid ==
    /\ call \in [ op : {"args"}, cube : Cubes, channel_width : ChannelWidths,
                  method : Methods, downsamp_function : DownsampFunctions,
                  out : {NoOutcome} ]
    /\ self = Undef
    /\ ret = NoCall
    /\ dist = NoDist

SpectralRegridCube ==
    /\ call.op = "args"
    /\ call' = [call EXCEPT
                   !.op = "spectral_regrid_cube",
                   !.out = spectral_regrid_cube(call.cube, call.channel_width,
                                                call.method, call.downsamp_function)]
    /\ UNCHANGED <<self, ret, dist>>

NextRegrid == SpectralRegridCube

SpecRegrid == InitRegrid /\ [][NextRegrid]_vars

(* --------------------------- PSpec_Distance --------------------------- *)
\* PowerSpectrum.run with fit_2D=False and verbose=False: the three stages in
\* order, an exception ending the run where it is raised.  brk is passed on
\* to fit_pspec, every other fit keyword is left at its default.
run(obj, apodize, alpha, beam_correct, logspacing, return_stddev, low_cut, high_cut, brk, lm) ==
    Bind(compute_pspec(obj, beam_correct, apodize, alpha), LAMBDA a :
        IF a.raised # "" THEN a
        ELSE Bind(compute_radial_pspec(a.obj, return_stddev, logspacing, None),
                  LAMBDA b :
             IF b.raised # ""
             THEN Outcome(b.obj, b.raised, a.warnings \o b.warnings)
             ELSE Bind(fit_pspec(b.obj, brk, FALSE, low_cut, high_cut,
                                 min_fits_pts_default, lm), LAMBDA c :
                  Outcome(c.obj, c.raised, a.warnings \o b.warnings \o c.warnings))))

\* The defaults of run that PSpec_Distance leaves alone (alpha as the index of
\* the taper in AlphaSet).
run_default_alpha == 1

\* fitting_utils.check_fit_limits on one limit: the same limit for both.
check_fit_limits(low_cut, high_cut) == << <<low_cut, low_cut>>, <<high_cut, high_cut>> >>

NoFiducial == [given |-> FALSE, model |-> Undef]

Fiducial(model) == [given |-> TRUE, model |-> model]

\* PSpec_Distance.__init__ with one break (or None) for both data sets.
PSpec_Distance(data1, data2, breaks, fiducial_model, low_cut, high_cut, logspacing, lm1, lm2) ==
    LET limits == check_fit_limits(low_cut, high_cut)
    IN  Bind(IF fiducial_model.given
             THEN Outcome(fiducial_model.model, "", <<>>)
             ELSE run(PowerSpectrum(data1, FALSE), TRUE, run_default_alpha, TRUE,
                      logspacing, TRUE, limits[1][1], limits[2][1], breaks, lm1),
             LAMBDA r1 :
        IF r1.raised # ""
        THEN [NoDist EXCEPT !.op = "__init__", !.raised = r1.raised]
        ELSE Bind(run(PowerSpectrum(data2, FALSE), TRUE, run_default_alpha, TRUE,
                      logspacing, TRUE, limits[1][2], limits[2][2], breaks, lm2),
                  LAMBDA r2 :
             IF r2.raised # ""
             THEN [NoDist EXCEPT !.op = "__init__", !.raised = r2.raised]
             ELSE [ op |-> "__init__", raised |-> "", pspec1 |-> r1.obj,
                    pspec2 |-> r2.obj, results |-> None, distance |-> None ]))

\* numpy broadcasting of a scalar against an array of two.
Elem(val, i) == IF Len(val.v) = 1 THEN val.v[1] ELSE val.v[i]

\* PSpec_Distance.distance_metric, lines 237-240.  The standard errors are
\* carried squared, and so is the distance:
\* (slope1 - slope2)^2 / (slope_err1^2 + slope_err2^2), element by element.
distance_metric(d) ==
    LET s1 == d.pspec1._slope
        s2 == d.pspec2._slope
        e1 == d.pspec1._slope_err
        e2 == d.pspec2._slope_err
        n  == Max(Max(Len(s1.v), Len(s2.v)), Max(Len(e1.v), Len(e2.v)))
        val(i) == RDiv(RMul(RSub(Elem(s1, i), Elem(s2, i)),
                            RSub(Elem(s1, i), Elem(s2, i))),
                       RAdd(Elem(e1, i), Elem(e2, i)))
        all_scalar == \A q \in {s1, s2, e1, e2} : q.k = "scalar"
    IN  [d EXCEPT !.op = "distance_metric",
                  !.distance = IF all_scalar THEN Scalar(val(1))
                               ELSE Array(Freeze([i \in 1..n |-> val(i)], n))]

(* ------------------------ PSpec_Distance, alone ----------------------- *)
\* Break guesses as PSpec_Distance takes them: frequencies.
DistanceBreaks == {None} \cup {g[1] : g \in {h \in BreakGuesses : ~h[2]}}

\* The default high_cut of PSpec_Distance, 0.5 / u.pix.
distance_default_high_cut == Scalar(Rat(1, 2))

\* Pipelines a caller has fitted and passes as fiducial_model.
FiducialModels ==
    { fit_pspec(p, Scalar(Rat(1, 4)), FALSE, None, None, 1, lm).obj :
        p \in BinnedPipelines, lm \in LmSegOutcomes }

InitDist ==
    /\ dist = NoDist
    /\ self = Undef
    /\ ret = NoCall
    /\ call = NoRegrid

\* PSpec_Distance(data1, data2, breaks=..., logspacing=...).
NewDistance ==
    /\ dist.op = ""
    /\ \E data1 \in Images, data2 \in Images, breaks \in DistanceBreaks,
          logspacing \in BOOLEAN, lm1 \in LmSegOutcomes, lm2 \in LmSegOutcomes :
          dist' = PSpec_Distance(data1, data2, breaks, NoFiducial, None,
                                 distance_default_high_cut, logspacing, lm1, lm2)
    /\ UNCHANGED <<self, ret, call>>

\* PSpec_Distance(data1, data2, fiducial_model=..., breaks=..., ...).
NewDistanceFiducial ==
    /\ dist.op = ""
    /\ \E model \in FiducialModels, data2 \in Images, breaks \in DistanceBreaks,
          logspacing \in BOOLEAN, lm2 \in LmSegOutcomes :
          dist' = PSpec_Distance(data2, data2, breaks, Fiducial(model), None,
                                 distance_default_high_cut, logspacing, NoLm, lm2)
    /\ UNCHANGED <<self, ret, call>>

DistanceMetric ==
    /\ dist.op = "__init__" /\ dist.raised = ""
    /\ dist' = distance_metric(dist)
    /\ UNCHANGED <<self, ret, call>>

NextDist == NewDistance \/ NewDistanceFiducial \/ DistanceMetric

SpecDist == InitDist /\ [][NextDist]_vars

(* ----------------------- PowerSpectrum.run, stepwise ------------------ *)
\* The arguments of run: the break guess and min_fits_pts reach fit_pspec
\* through **fit_kwargs; verbose stays False.
RunArgs ==
    [ apodize : BOOLEAN, beam_correct : BOOLEAN, logspacing : BOOLEAN,
      return_stddev : BOOLEAN, brk : DistanceBreaks,
      min_fits_pts : {1, min_fits_pts_default}, fit_2D : BOOLEAN ]

\* The body of run, were fit_pspec called straight after compute_pspec.
run_next_unbinned(stage, raised, fit_2D) ==
    IF raised # "" THEN "raised"
    ELSE IF stage = "compute_pspec" THEN "fit_pspec"
    ELSE IF stage = "fit_pspec" /\ fit_2D THEN "fit_2Dpspec"
    ELSE "return"

\* Lines 121-142: the statement run executes after the stage it has just
\* called; an exception leaves run at once.
run_next(stage, raised, fit_2D) ==
    IF raised # "" THEN "raised"
    ELSE IF stage = "compute_pspec" THEN "compute_radial_pspec"
    ELSE IF stage = "compute_radial_pspec" THEN "fit_pspec"
    ELSE IF stage = "fit_pspec" /\ fit_2D THEN "fit_2Dpspec"
    ELSE "return"

\* The frame of run after it has called stage, which ended as raised.
RunStep(stage, raised) ==
    [call EXCEPT !.pc = run_next(stage, raised, call.args.fit_2D),
                 !.stages = Append(@, stage),
                 !.raised = raised]

\* run(...) is entered on a freshly constructed pipeline.
InitRun ==
    /\ self \in {PowerSpectrum(img, beam) : img \in Images, beam \in BOOLEAN}
    /\ call \in [ op : {"run"}, pc : {"compute_pspec"}, stages : {<<>>},
                  raised : {""}, args : RunArgs ]
    /\ ret = NoCall
    /\ dist = NoDist

\* Lines 121-122.
RunComputePspec ==
    /\ call.op = "run" /\ call.pc = "compute_pspec"
    /\ \E out \in {compute_pspec(self, call.args.beam_correct, call.args.apodize,
                                 run_default_alpha)} :
          /\ self' = out.obj
          /\ call' = RunStep("compute_pspec", out.raised)
    /\ UNCHANGED <<ret, dist>>

\* Lines 123-125.
RunComputeRadialPspec ==
    /\ call.op = "run" /\ call.pc = "compute_radial_pspec"
    /\ \E out \in {compute_radial_pspec(self, call.args.return_stddev,
                                        call.args.logspacing, None)} :
          /\ self' = out.obj
          /\ call' = RunStep("compute_radial_pspec", out.raised)
    /\ UNCHANGED <<ret, dist>>

\* Line 127.
RunFitPspec ==
    /\ call.op = "run" /\ call.pc = "fit_pspec"
    /\ \E lm \in IF IsNone(call.args.brk) THEN {NoLm} ELSE LmSegOutcomes :
       \E out \in {fit_pspec(self, call.args.brk, FALSE, None, None,
                             call.args.min_fits_pts, lm)} :
          /\ self' = out.obj
          /\ call' = RunStep("fit_pspec", out.raised)
    /\ UNCHANGED <<ret, dist>>

\* Lines 129-131: fit_2Dpspec, which is not among the sources; it either
\* returns or raises, and leaves the 1D results alone.
RunFit2Dpspec ==
    /\ call.op = "run" /\ call.pc = "fit_2Dpspec"
    /\ \E raised \in {"", "Exception"} :
          call' = RunStep("fit_2Dpspec", raised)
    /\ UNCHANGED <<self, ret, dist>>

NextRun == RunComputePspec \/ RunComputeRadialPspec \/ RunFitPspec \/ RunFit2Dpspec

SpecRun == InitRun /\ [][NextRun]_vars

(* ----------------------------- properties ----------------------------- *)
\* The last call was fit_pspec with a break guess, it returned, and the
\* fitted break had to be discarded: the fit has no 5 parameters, or fewer
\* than min_fits_pts fitted points lie strictly below the fitted break.
BreakDiscarded ==
    /\ ret.op = "fit_pspec" /\ ret.guess /\ ret.raised = ""
    /\ \/ ~ret.lm.converged
       \/ CountBelow(FitX(self), ret.lm.brk) < ret.min_fits_pts

\* What fit_pspec(brk=None) gives on the same profile with the same limits.
NoBreakFit ==
    fit_pspec(self, None, FALSE, self.low_cut, self.high_cut,
              min_fits_pts_default, NoLm).obj

\* C1: whenever the fitted break is discarded, a warning is emitted, brk is
\* None, and slope, slope_err and fit are those of the fit without a break
\* guess on the same profile and the same low/high cutoffs.
C1_DiscardedBreakIsNoBreakFit ==
    BreakDiscarded =>
        /\ ret.warnings # <<>>
        /\ IsNone(self._brk)
        /\ self._slope = NoBreakFit._slope
        /\ self._slope_err = NoBreakFit._slope_err
        /\ self.fit = NoBreakFit.fit

\* A 5-parameter fit whose break leaves too few points below it, after an
\* earlier call had kept a break.
C1_Witness ==
    /\ BreakDiscarded /\ ret.lm.converged
    /\ ~IsUndef(self._brk_err) /\ ~IsNone(self._brk_err)

\* The last call was fit_pspec and it ended with a break.
BreakAccepted ==
    /\ ret.op = "fit_pspec" /\ ret.raised = ""
    /\ ~IsNone(self._brk)

\* C2: an accepted break lies strictly within the fitted frequency range
\* and at least min_fits_pts fitted points lie strictly below it.
C2_AcceptedBreakWithinRange ==
    BreakAccepted =>
        LET x == FitX(self)
        IN  /\ \E i \in 1..Len(x) : x[i] < ret.lm.brk
            /\ \E i \in 1..Len(x) : x[i] > ret.lm.brk
            /\ CountBelow(x, ret.lm.brk) >= ret.min_fits_pts

\* C3: whenever brk is None, brk_err is None or was never set.
C3_NoBreakNoBreakErr ==
    (hasattr(self, "_brk") /\ IsNone(self._brk)) =>
        (IsNone(self._brk_err) \/ IsUndef(self._brk_err))

\* C9: compute_pspec never fails; the spectrum is divided by the beam
\* response exactly when beam_correct is set and a beam was given, and is
\* otherwise the one compute_pspec(beam_correct=False) gives with the same
\* apodize and alpha.
C9_BeamCorrectionFallback ==
    ret.op = "compute_pspec" =>
        LET plain == compute_pspec(self, FALSE, ret.apodize, ret.alpha).obj._ps2D
        IN  /\ ret.raised = ""
            /\ self._ps2D = IF ret.beam_correct /\ hasattr(self, "_beam")
                            THEN Array(BeamCorrected(plain.v, self._beam.v))
                            ELSE plain

\* compute_pspec(beam_correct=True) on a pipeline built without a beam.
C9_Witness ==
    /\ ret.op = "compute_pspec" /\ ret.beam_correct /\ ret.apodize
    /\ ~hasattr(self, "_beam")
    /\ hasattr(self, "_ps2D")

\* spectral_regrid_cube was called on a cube with method='regrid' and a
\* Quantity in pixel units or in a unit that converts to the cube's.
RegridCalled ==
    /\ call.op = "spectral_regrid_cube"
    /\ call.cube.is_cube
    /\ call.method = "regrid"
    /\ call.channel_width.type = "Quantity"
    /\ call.channel_width.unit \in {"pix", "km/s", "m/s"}

ChannelStep == RSub(call.cube.spectral_axis[2], call.cube.spectral_axis[1])

\* |target width / current channel width| of the call.
Ratio ==
    LET w == call.channel_width
        target == IF w.unit = "pix" THEN RMul(w.value, ChannelStep)
                  ELSE IF w.unit = "m/s" THEN RDiv(w.value, RInt(1000))
                  ELSE w.value
    IN  RAbs(RDiv(target, ChannelStep))

\* C4: with method='regrid' and a Quantity width, a ratio below 1 raises
\* before any cube operation, a ratio of 1 warns and returns the input cube
\* itself, and a ratio above 1 returns a new, smoothed and interpolated cube.
C4_RegridThreeOutcomes ==
    RegridCalled =>
        /\ RLess(Ratio, RInt(1)) =>
              /\ call.out.raised = "ValueError"
              /\ call.out.log = <<>>
        /\ Ratio = RInt(1) =>
              /\ call.out.raised = "" /\ call.out.warned
              /\ call.out.is_input /\ call.out.cube = call.cube
              /\ call.out.log = <<>>
        /\ RGreater(Ratio, RInt(1)) =>
              /\ call.out.raised = "" /\ ~call.out.warned
              /\ ~call.out.is_input /\ call.out.cube # call.cube
              /\ call.out.log = <<"spectral_smooth", "spectral_interpolate">>

\* The width of the channels themselves, asked for on a descending axis.
C4_Witness ==
    /\ RegridCalled /\ Ratio = RInt(1) /\ call.out.warned
    /\ RLess(ChannelStep, RInt(0))
    /\ call.channel_width.unit = "km/s"

\* The call broke the input contract: an unsupported method, a width that
\* is no int for 'downsample', or no Quantity for 'regrid'.
ContractBroken ==
    /\ call.op = "spectral_regrid_cube"
    /\ \/ call.method \notin {"regrid", "downsample"}
       \/ call.method = "downsample" /\ call.channel_width.type # "int"
       \/ call.method = "regrid" /\ call.channel_width.type # "Quantity"

\* C5: a call that breaks the input contract raises before any cube
\* operation is invoked, and on a cube an unsupported method name is what is
\* reported, whatever the type of channel_width.
C5_ContractErrorsFirst ==
    ContractBroken =>
        /\ call.out.raised \in {"TypeError", "ValueError"}
        /\ call.out.log = <<>>
        /\ call.out.cube = NotACube
        /\ (call.cube.is_cube /\ call.method \notin {"regrid", "downsample"}) =>
              (call.out.raised = "ValueError" /\ call.out.blamed = "method")
        /\ (call.cube.is_cube /\ call.method \in {"regrid", "downsample"}) =>
              (call.out.raised = "TypeError" /\ call.out.blamed = "channel_width")

\* method='downsample' with a float width on a cube.
C5_Witness ==
    /\ ContractBroken /\ call.cube.is_cube
    /\ call.method = "downsample" /\ call.channel_width.type = "float"
    /\ call.out.raised = "TypeError"

\* method='downsample' was called on a cube with an int width.
DownsampleCalled ==
    /\ call.op = "spectral_regrid_cube"
    /\ call.cube.is_cube
    /\ call.method = "downsample"
    /\ call.channel_width.type = "int"

\* C6: with method='downsample', an int width below 1 is rejected and never
\* passed on to downsample_axis.
C6_DownsampleOnlyPositive ==
    (DownsampleCalled /\ call.channel_width.value[1] < 1) =>
        /\ call.out.raised \in {"TypeError", "ValueError"}
        /\ call.out.blamed = "channel_width"
        /\ call.out.log = <<>>

\* C7: with method='downsample' and an int factor k >= 1 on N channels, the
\* output has floor(N/k) channels and channel j is downsamp_function of the
\* source channels (j-1)*k+1 .. j*k.
C7_DownsampleExact ==
    (DownsampleCalled /\ call.channel_width.value[1] >= 1) =>
        LET k == call.channel_width.value[1]
            N == Len(call.cube.data)
            out == call.out.cube.data
        IN  /\ call.out.raised = ""
            /\ Len(out) = N \div k
            /\ \A j \in 1..(N \div k) :
                  out[j] = Estimator(call.downsamp_function,
                                     SubSeq(call.cube.data, (j - 1) * k + 1, j * k))

\* The call regridded: method='regrid' and a ratio above 1.
Regridded == RegridCalled /\ RGreater(Ratio, RInt(1)) /\ call.out.raised = ""

\* floor(N / ratio).
Samples == (Len(call.cube.data) * Ratio[2]) \div Ratio[1]

Ascending(axis) == \A i \in 1..(Len(axis) - 1) : RLess(axis[i], axis[i + 1])

\* The new axis has floor(N / ratio) samples, is uniform, goes from the
\* first to the last value of the old axis in the old direction, and the
\* cube was smoothed before it was interpolated.
RegridAxisAsSpecified ==
    LET old == call.cube.spectral_axis
        new == call.out.cube.spectral_axis
    IN  /\ Len(new) = Samples
        /\ \A i \in 2..(Len(new) - 1) :
              RSub(new[i + 1], new[i]) = RSub(new[i], new[i - 1])
        /\ new[1] = old[1]
        /\ new[Len(new)] = old[Len(old)]
        /\ Ascending(new) <=> Ascending(old)
        /\ call.out.log = <<"spectral_smooth", "spectral_interpolate">>
        /\ [i \in 1..Len(call.out.cube.ops) |-> call.out.cube.ops[i].name]
              = <<"spectral_smooth", "spectral_interpolate">>

Swapped == [dist EXCEPT !.pspec1 = dist.pspec2, !.pspec2 = dist.pspec1]

\* C10: distance_metric leaves one scalar, (slope_A - slope_B)^2 over
\* slope_err_A^2 + slope_err_B^2 (the square of the distance), and the same
\* scalar with the two pipelines swapped, whether a fit kept a break or not.
C10_DistanceSymmetricScalar ==
    dist.op = "distance_metric" =>
        LET A == dist.pspec1
            B == dist.pspec2
            d == RSub(A._slope.v[1], B._slope.v[1])
        IN  /\ dist.distance.k = "scalar"
            /\ Len(A._slope.v) = 1 /\ Len(B._slope.v) = 1
            /\ dist.distance.v[1] =
                  RDiv(RMul(d, d), RAdd(A._slope_err.v[1], B._slope_err.v[1]))
            /\ dist.distance = distance_metric(Swapped).distance

\* The stages of run, in the order of their dependencies.
RunOrder == <<"compute_pspec", "compute_radial_pspec", "fit_pspec", "fit_2Dpspec">>

\* C11: run calls compute_pspec, compute_radial_pspec and fit_pspec in
\* this order and each once; binning starts with ps2D populated, fitting
\* with freqs and ps1D populated, and when run returns ps2D, freqs, ps1D and
\* slope are all populated.
C11_RunStagesInOrder ==
    call.op = "run" =>
        /\ call.stages = SubSeq(RunOrder, 1, Len(call.stages))
        /\ call.pc = "compute_radial_pspec" =>
              (call.stages = SubSeq(RunOrder, 1, 1) /\ hasattr(self, "_ps2D"))
        /\ call.pc = "fit_pspec" =>
              /\ call.stages = SubSeq(RunOrder, 1, 2)
              /\ hasattr(self, "_freqs") /\ hasattr(self, "_ps1D")
              /\ self._freqs.v = pspec(self._ps2D, call.args.return_stddev,
                                       IF call.args.return_stddev
                                       THEN call.args.logspacing
                                       ELSE pspec_default_logspacing, None)[1]
        /\ call.pc = "return" =>
              /\ call.stages =
                    SubSeq(RunOrder, 1, IF call.args.fit_2D THEN 4 ELSE 3)
              /\ hasattr(self, "_ps2D") /\ hasattr(self, "_freqs")
              /\ hasattr(self, "_ps1D") /\ hasattr(self, "_slope")
              /\ self._slope.k \in {"scalar", "array"}

\* run(brk=..., min_fits_pts=1, fit_2D=False) has returned with a kept break.
C11_Witness ==
    /\ call.op = "run" /\ call.pc = "return"
    /\ ~call.args.fit_2D /\ ~IsNone(call.args.brk)
    /\ self._slope.k = "array"
    /\ call.stages = SubSeq(RunOrder, 1, 3)

\* compute_radial_pspec was the last call on the pipeline and it returned.
Binned == ret.op = "compute_radial_pspec" /\ ret.raised = ""

\* C12: compute_radial_pspec passes the caller's logspacing on to psds.pspec
\* whatever return_stddev is: the profile it stores is the one binned with
\* the spacing the caller asked for.
C12_LogspacingForwarded ==
    Binned =>
        LET r == pspec(self._ps2D, ret.return_stddev, ret.logspacing, ret.max_bin)
        IN  self._freqs.v = r[1] /\ self._ps1D.v = r[2]

\* The profile and the standard deviations come from one binning of the
\* current ps2D.
SameBinning ==
    \E logspacing \in BOOLEAN, max_bin \in MaxBinSet :
        pspec(self._ps2D, TRUE, logspacing, max_bin)
            = <<self._freqs.v, self._ps1D.v, self._ps1D_stddev.v>>

\* C13: after any sequence of compute_radial_pspec calls, freqs and ps1D
\* have the same length, and ps1D_stddev, when it is not None, has that
\* length too and was computed in the binning that gave freqs and ps1D.
C13_StddevMatchesProfile ==
    Binned =>
        /\ Len(self._freqs.v) = Len(self._ps1D.v)
        /\ ~IsNone(self._ps1D_stddev) =>
              /\ Len(self._ps1D_stddev.v) = Len(self._freqs.v)
              /\ SameBinning

\* freqs and ps1D are a radial profile of the current ps2D.
ProfileCurrent ==
    \E return_stddev \in BOOLEAN, logspacing \in BOOLEAN, max_bin \in MaxBinSet :
        LET r == pspec(self._ps2D, return_stddev, logspacing, max_bin)
        IN  self._freqs.v = r[1] /\ self._ps1D.v = r[2]

\* slope and fit come from a regression on the current freqs and ps1D,
\* within the fit limits of the last fit.
FitCurrent ==
    /\ self.fit.x = FitX(self) /\ self.fit.y = FitY(self)
    /\ self._slope = Scalar(self.fit.params[2])

\* C14: the downstream results are never stale: freqs and ps1D, when
\* readable, were binned from the current ps2D, and slope and fit, when
\* readable, were fitted from the current freqs and ps1D.
C14_NoStaleResults ==
    /\ hasattr(self, "_freqs") => ProfileCurrent
    /\ hasattr(self, "_slope") => FitCurrent

====
